---------------------------- MODULE Spec2Model ----------------------------
(***************************************************************************)
(* A model of the record validation pipeline of file-validator:            *)
(* sanitizeKeys, accountRecordSchema, validateEndBalance, processFile      *)
(* (utility.ts, schema) and the FileUploader component that feeds it.      *)
(*                                                                         *)
(* Representation.                                                         *)
(*   - A JS string that the code inspects character by character (a key,   *)
(*     a raw field value) is a sequence of one-character strings.          *)
(*   - A text the code only builds (an error message) is the sequence of   *)
(*     the fragments it is concatenated from, in order: the literal parts  *)
(*     of a template, the printed values, the separators of a join.  The   *)
(*     JS string is their concatenation.                                   *)
(*   - A JS number is NaN, +Infinity, -Infinity or a finite value held as  *)
(*     an integer number of cents (1/100): every finite number of the      *)
(*     model has at most two decimals.                                     *)
(*   - A JS object is the sequence of its own enumerable properties in     *)
(*     iteration order (no integer-like keys occur, so that order is the   *)
(*     insertion order).                                                   *)
(***************************************************************************)
EXTENDS Integers, Sequences, FiniteSets, TLC

(***************************************************************************)
(* Bounds of the model.                                                    *)
(***************************************************************************)
MaxRecords == 3
MaxCents == 2
MaxRunRecords == 2
MaxKeys == 2
MaxDrops == 3

-----------------------------------------------------------------------------
(***************************************************************************)
(* JS values: string | number, and undefined for an absent property.       *)
(***************************************************************************)
NaN == [kind |-> "nan", cents |-> 0]
PosInf == [kind |-> "inf", cents |-> 1]
NegInf == [kind |-> "inf", cents |-> -1]
Fin(c) == [kind |-> "fin", cents |-> c]

\* t = "string": a string read from the input, held as its characters in s;
\* t = "text": a string built by the code, held as its fragments in text.
Num(n) == [t |-> "number", n |-> n, s |-> <<>>, text |-> <<>>]
Str(s) == [t |-> "string", n |-> NaN, s |-> s, text |-> <<>>]
Text(x) == [t |-> "text", n |-> NaN, s |-> <<>>, text |-> x]
Undefined == [t |-> "undefined", n |-> NaN, s |-> <<>>, text |-> <<>>]

isNaN(n) == n.kind = "nan"
isFinite(n) == n.kind = "fin"

\* IEEE addition on the model's numbers: Infinity + -Infinity is NaN.
Add(a, b) ==
  IF isNaN(a) \/ isNaN(b) THEN NaN
  ELSE IF a.kind = "inf" /\ b.kind = "inf"
       THEN (IF a.cents = b.cents THEN a ELSE NaN)
  ELSE IF a.kind = "inf" THEN a
  ELSE IF b.kind = "inf" THEN b
  ELSE Fin(a.cents + b.cents)

-----------------------------------------------------------------------------
(***************************************************************************)
(* Characters.                                                             *)
(***************************************************************************)
Digits == <<"0", "1", "2", "3", "4", "5", "6", "7", "8", "9">>
UpperCase == <<"A", "B", "C", "D", "E", "F", "G", "H", "I", "J", "K", "L", "M",
               "N", "O", "P", "Q", "R", "S", "T", "U", "V", "W", "X", "Y", "Z">>
LowerCase == <<"a", "b", "c", "d", "e", "f", "g", "h", "i", "j", "k", "l", "m",
               "n", "o", "p", "q", "r", "s", "t", "u", "v", "w", "x", "y", "z">>

\* The class \s of the regular expression, and the StrWhiteSpaceChar of Number().
isWhiteSpace(c) == c \in {" ", "\t", "\n", "\r"}

isDigit(c) == \E d \in 1..10 : Digits[d] = c
digitValue(c) == (CHOOSE d \in 1..10 : Digits[d] = c) - 1

\* String.prototype.toLowerCase on one character.
toLowerCase(c) ==
  IF \E i \in 1..26 : UpperCase[i] = c
  THEN LowerCase[CHOOSE i \in 1..26 : UpperCase[i] = c]
  ELSE c

\* String.prototype.toLowerCase on a string.
toLowerCaseAll(s) == [i \in 1..Len(s) |-> toLowerCase(s[i])]

-----------------------------------------------------------------------------
(***************************************************************************)
(* Number(value): the coercion used by z.coerce.number() and by            *)
(* validateEndBalance.  StringToNumber follows ECMAScript's                *)
(* StringNumericLiteral: surrounding white space is trimmed, the empty     *)
(* string is 0, an optional sign, "Infinity", or decimal digits with an    *)
(* optional fraction; anything else is NaN.  Exponents and 0x/0o/0b        *)
(* literals are not modelled: no input string of the model has that form,  *)
(* nor more than two fraction digits.                                      *)
(***************************************************************************)
RECURSIVE trimStart(_)
trimStart(s) ==
  IF s # <<>> /\ isWhiteSpace(Head(s)) THEN trimStart(Tail(s)) ELSE s

RECURSIVE trimEnd(_)
trimEnd(s) ==
  IF s # <<>> /\ isWhiteSpace(s[Len(s)])
  THEN trimEnd(SubSeq(s, 1, Len(s) - 1)) ELSE s

trim(s) == trimEnd(trimStart(s))

allDigits(s) == \A i \in 1..Len(s) : isDigit(s[i])

RECURSIVE digitsValue(_)
digitsValue(s) ==
  IF s = <<>> THEN 0
  ELSE 10 * digitsValue(SubSeq(s, 1, Len(s) - 1)) + digitValue(s[Len(s)])

\* The fraction digits as cents.
fractionCents(f) ==
  IF Len(f) = 0 THEN 0
  ELSE IF Len(f) = 1 THEN 10 * digitValue(f[1])
  ELSE 10 * digitValue(f[1]) + digitValue(f[2])

\* StrUnsignedDecimalLiteral (without exponent): digits, digits.digits,
\* digits. or .digits
unsignedDecimal(s) ==
  LET dots == {i \in 1..Len(s) : s[i] = "."} IN
  IF dots = {}
  THEN (IF s # <<>> /\ allDigits(s) THEN Fin(100 * digitsValue(s)) ELSE NaN)
  ELSE LET p == CHOOSE i \in dots : TRUE
           ip == SubSeq(s, 1, p - 1)
           fp == SubSeq(s, p + 1, Len(s))
       IN IF Cardinality(dots) = 1 /\ allDigits(ip) /\ allDigits(fp)
             /\ Len(ip) + Len(fp) > 0
          THEN Fin(100 * digitsValue(ip) + fractionCents(fp))
          ELSE NaN

InfinityChars == <<"I", "n", "f", "i", "n", "i", "t", "y">>

unsignedNumeric(s) == IF s = InfinityChars THEN PosInf ELSE unsignedDecimal(s)

negate(n) ==
  IF n.kind = "nan" THEN n ELSE [kind |-> n.kind, cents |-> 0 - n.cents]

unsignedPart(t) == IF Head(t) \in {"-", "+"} THEN Tail(t) ELSE t

withSign(t, magnitude) == IF Head(t) = "-" THEN negate(magnitude) ELSE magnitude

trimmedToNumber(t) ==
  IF t = <<>> THEN Fin(0) ELSE withSign(t, unsignedNumeric(unsignedPart(t)))

StringToNumber(s) == trimmedToNumber(trim(s))

\* Number(v)
Number(v) ==
  IF v.t = "number" THEN v.n
  ELSE IF v.t = "string" THEN StringToNumber(v.s)
  ELSE NaN

-----------------------------------------------------------------------------
(***************************************************************************)
(* Number to string: the template literal `${n}` (Number::toString) and    *)
(* Number.prototype.toFixed(2).  A finite number of the model is a whole   *)
(* number of cents, so toFixed(2) has nothing to round away and            *)
(* Number::toString prints the shortest decimal: no trailing zeros.        *)
(***************************************************************************)
RECURSIVE natToString(_)
natToString(k) ==
  IF k < 10 THEN Digits[k + 1]
  ELSE natToString(k \div 10) \o Digits[(k % 10) + 1]

abs(c) == IF c < 0 THEN 0 - c ELSE c

numberToString(n) ==
  IF n.kind = "nan" THEN "NaN"
  ELSE IF n.kind = "inf"
       THEN (IF n.cents > 0 THEN "Infinity" ELSE "-Infinity")
  ELSE LET a == abs(n.cents)
           f == a % 100
           sign == IF n.cents < 0 THEN "-" ELSE ""
           frac == IF f = 0 THEN ""
                   ELSE IF f % 10 = 0 THEN "." \o Digits[(f \div 10) + 1]
                   ELSE "." \o Digits[(f \div 10) + 1] \o Digits[(f % 10) + 1]
       IN sign \o natToString(a \div 100) \o frac

toFixed2(n) ==
  IF n.kind = "nan" THEN "NaN"
  ELSE IF n.kind = "inf"
       THEN (IF n.cents > 0 THEN "Infinity" ELSE "-Infinity")
  ELSE LET a == abs(n.cents)
           f == a % 100
           sign == IF n.cents < 0 THEN "-" ELSE ""
       IN sign \o natToString(a \div 100) \o "."
               \o Digits[(f \div 10) + 1] \o Digits[(f % 10) + 1]

-----------------------------------------------------------------------------
(***************************************************************************)
(* Objects: a sequence of [key, value] properties with distinct keys.      *)
(***************************************************************************)
kReference == <<"r", "e", "f", "e", "r", "e", "n", "c", "e">>
kAccountNumber == <<"a", "c", "c", "o", "u", "n", "t", "N", "u", "m", "b", "e", "r">>
kStartBalance == <<"s", "t", "a", "r", "t", "B", "a", "l", "a", "n", "c", "e">>
kMutation == <<"m", "u", "t", "a", "t", "i", "o", "n">>
kEndBalance == <<"e", "n", "d", "B", "a", "l", "a", "n", "c", "e">>
kDescription == <<"d", "e", "s", "c", "r", "i", "p", "t", "i", "o", "n">>
kErrors == <<"e", "r", "r", "o", "r", "s">>

Prop(k, v) == [key |-> k, value |-> v]

hasKey(obj, k) == \E i \in 1..Len(obj) : obj[i].key = k

\* obj[k]: undefined when the property is absent
get(obj, k) ==
  IF hasKey(obj, k)
  THEN obj[CHOOSE i \in 1..Len(obj) : obj[i].key = k].value
  ELSE Undefined

\* obj[k] = v: an existing property keeps its place, a new one goes last
put(obj, k, v) ==
  IF hasKey(obj, k)
  THEN [i \in 1..Len(obj) |-> IF obj[i].key = k THEN Prop(k, v) ELSE obj[i]]
  ELSE Append(obj, Prop(k, v))

keysOf(obj) == [i \in 1..Len(obj) |-> obj[i].key]

-----------------------------------------------------------------------------
(***************************************************************************)
(* sanitizeKeys                                                            *)
(***************************************************************************)
\* key.replace(/\s+/g, "")
removeWhiteSpace(s) == SelectSeq(s, LAMBDA c : ~isWhiteSpace(c))

\* C9, mutant: the whole key is lower-cased, not only its first character
lowerEvery(s) == toLowerCaseAll(s)

\* trimmedKey.charAt(0).toLowerCase() + trimmedKey.slice(1)
lowerFirst(s) ==
  IF s = <<>> THEN <<>> ELSE <<toLowerCase(Head(s))>> \o Tail(s)

sanitizeKey(key) == lowerFirst(removeWhiteSpace(key))

RECURSIVE sanitizeLoop(_, _, _)
sanitizeLoop(record, i, sanitizeRecord) ==
  IF i > Len(record) THEN sanitizeRecord
  ELSE sanitizeLoop(record, i + 1,
         put(sanitizeRecord, sanitizeKey(record[i].key), record[i].value))

sanitizeKeys(record) == sanitizeLoop(record, 1, <<>>)

-----------------------------------------------------------------------------
(***************************************************************************)
(* validateEndBalance: null, or the error text.                            *)
(***************************************************************************)
Null == [null |-> TRUE, text |-> <<>>]
Message(x) == [null |-> FALSE, text |-> x]

InvalidNumberFormat == <<"Invalid number format for balance or mutation.">>

mismatchMessage(calculatedEndBalance, endBalance) ==
  << "Mismatching end balance: Expected: ", numberToString(calculatedEndBalance),
     ", Received: ", numberToString(endBalance) >>

\* C3, mutant: the message prints the rounded values
compareEndBalanceRounded(calculatedEndBalance, endBalance) ==
  IF toFixed2(calculatedEndBalance) # toFixed2(endBalance)
  THEN Message(<< "Mismatching end balance: Expected: ",
                  toFixed2(calculatedEndBalance), ", Received: ",
                  toFixed2(endBalance) >>)
  ELSE Null

\* calculatedEndBalance.toFixed(2) !== endBalance.toFixed(2)
compareEndBalance(calculatedEndBalance, endBalance) ==
  IF toFixed2(calculatedEndBalance) # toFixed2(endBalance)
  THEN Message(mismatchMessage(calculatedEndBalance, endBalance))
  ELSE Null

checkEndBalance(startBalance, mutation, endBalance) ==
  IF isNaN(startBalance) \/ isNaN(mutation) \/ isNaN(endBalance)
  THEN Message(InvalidNumberFormat)
  ELSE compareEndBalance(Add(startBalance, mutation), endBalance)

validateEndBalance(record) ==
  checkEndBalance(Number(get(record, kStartBalance)),
                  Number(get(record, kMutation)),
                  Number(get(record, kEndBalance)))

-----------------------------------------------------------------------------
(***************************************************************************)
(* reorderRecordForXml: { reference, ...rest }                             *)
(***************************************************************************)
restOf(record, k) == SelectSeq(record, LAMBDA p : p.key # k)

reorderRecordForXml(record) ==
  <<Prop(kReference, get(record, kReference))>> \o restOf(record, kReference)

-----------------------------------------------------------------------------
(***************************************************************************)
(* accountRecordSchema and safeParse.  The schema is zod's; what is        *)
(* modelled is what each declared field type does to a value:              *)
(*   z.coerce.number()   Number(value), rejected when NaN or infinite      *)
(*   .int()              rejected when not an integer; the checks after    *)
(*                       it are then not run                               *)
(*   .nonnegative()      rejected when < 0                                 *)
(*   z.string()          rejected unless the value is a string             *)
(* An issue is [path, message]; issues come in the order of the schema's   *)
(* fields.  Unknown properties are ignored.                                *)
(***************************************************************************)
Field(name, key, type) == [name |-> name, key |-> key, type |-> type]

accountRecordSchema ==
  << Field("reference", kReference, "int"),
     Field("accountNumber", kAccountNumber, "string"),
     Field("startBalance", kStartBalance, "number"),
     Field("mutation", kMutation, "number"),
     Field("endBalance", kEndBalance, "number"),
     Field("description", kDescription, "string") >>

Issue(path, message) == [path |-> path, message |-> message]

isInteger(n) == n.kind = "fin" /\ n.cents % 100 = 0

receivedType(v) ==
  IF v.t = "number" THEN (IF isNaN(v.n) THEN "NaN" ELSE "number")
  ELSE IF v.t = "undefined" THEN "undefined"
  ELSE "string"

\* z.coerce.number(), on n = Number(value)
numberIssues(name, n) ==
  IF isNaN(n)
  THEN <<Issue(name, "Invalid input: expected number, received NaN")>>
  ELSE IF ~isFinite(n)
  THEN <<Issue(name, "Invalid input: expected number, received number")>>
  ELSE <<>>

\* z.coerce.number().int().nonnegative(), on n = Number(value)
intIssues(name, n) ==
  IF isNaN(n) \/ ~isFinite(n) THEN numberIssues(name, n)
  ELSE IF ~isInteger(n)
  THEN <<Issue(name, "Invalid input: expected int, received number")>>
  ELSE IF n.cents < 0
  THEN <<Issue(name, "Too small: expected number to be >=0")>>
  ELSE <<>>

\* z.string()
stringIssues(name, v) ==
  IF v.t \in {"string", "text"} THEN <<>>
  ELSE <<Issue(name, "Invalid input: expected string, received "
                       \o receivedType(v))>>

valueIssues(f, v) ==
  IF f.type = "string" THEN stringIssues(f.name, v)
  ELSE IF f.type = "int" THEN intIssues(f.name, Number(v))
  ELSE numberIssues(f.name, Number(v))

fieldIssues(f, record) == valueIssues(f, get(record, f.key))

RECURSIVE schemaIssues(_, _)
schemaIssues(i, record) ==
  IF i > Len(accountRecordSchema) THEN <<>>
  ELSE fieldIssues(accountRecordSchema[i], record) \o schemaIssues(i + 1, record)

\* accountRecordSchema.safeParse(record): success, and error.issues
parseResult(issues) == [success |-> issues = <<>>, issues |-> issues]

safeParse(record) == parseResult(schemaIssues(1, record))

-----------------------------------------------------------------------------
(***************************************************************************)
(* formatZodErrors: issues.map(...).join(" | ")                            *)
(***************************************************************************)
formatIssue(issue) ==
  <<"Field - ", issue.path, " Error - ", issue.message>>

RECURSIVE join(_, _)
join(texts, separator) ==
  IF texts = <<>> THEN <<>>
  ELSE IF Len(texts) = 1 THEN texts[1]
  ELSE texts[1] \o <<separator>> \o join(Tail(texts), separator)

formatZodErrors(issues) ==
  join([i \in 1..Len(issues) |-> formatIssue(issues[i])], " | ")

-----------------------------------------------------------------------------
(***************************************************************************)
(* processFile                                                             *)
(***************************************************************************)
\* C11, mutant: the record is never reordered
arrangeAsIs(sanitizedRecord, type) == sanitizedRecord

\* type === "xml" ? reorderRecordForXml(sanitizedRecord) : sanitizedRecord
arrange(sanitizedRecord, type) ==
  IF type = "xml" THEN reorderRecordForXml(sanitizedRecord) ELSE sanitizedRecord

\* { ...arrangedRecord, errors }
errorRecord(arrangedRecord, errors) == put(arrangedRecord, kErrors, Text(errors))

\* The body of the first forEach, given the sanitized record and its
\* validation result.
validationPush(validationErrorRecords, sanitizedRecord, ty, validationResult) ==
  IF ~validationResult.success
  THEN Append(validationErrorRecords,
              errorRecord(arrange(sanitizedRecord, ty),
                          formatZodErrors(validationResult.issues)))
  ELSE validationErrorRecords

validationStep(validationErrorRecords, sanitizedRecord, ty) ==
  validationPush(validationErrorRecords, sanitizedRecord, ty,
                 safeParse(sanitizedRecord))

\* The first forEach: the records that fail the schema, in order.
RECURSIVE validationLoop(_, _, _, _)
validationLoop(recs, ty, i, validationErrorRecords) ==
  IF i > Len(recs) THEN validationErrorRecords
  ELSE validationLoop(recs, ty, i + 1,
         validationStep(validationErrorRecords, sanitizeKeys(recs[i]), ty))

\* if (endBalanceError) errors.push(endBalanceError)
balanceErrors(endBalanceError) ==
  IF ~endBalanceError.null /\ endBalanceError.text # <<>>
  THEN <<endBalanceError.text>> ELSE <<>>

\* if (uniqueReferences.has(reference)) errors.push("Duplicate record")
duplicateErrors(reference, uniqueRefs) ==
  IF reference \in uniqueRefs THEN << <<"Duplicate record">> >> ELSE <<>>

\* C12, mutant: a flagged duplicate skips its balance check
consistencyErrorsEither(sanitizedRecord, uniqueRefs) ==
  IF get(sanitizedRecord, kReference) \in uniqueRefs
  THEN << <<"Duplicate record">> >>
  ELSE balanceErrors(validateEndBalance(sanitizedRecord))

\* The errors array of one record of the second forEach.
consistencyErrors(sanitizedRecord, uniqueRefs) ==
  duplicateErrors(get(sanitizedRecord, kReference), uniqueRefs)
    \o balanceErrors(validateEndBalance(sanitizedRecord))

\* The body of the second forEach on st = [refs, out], the Set and the
\* errorRecords so far: has/add, then the push.
consistencyPush(st, sanitizedRecord, ty, errors) ==
  [refs |-> st.refs \cup {get(sanitizedRecord, kReference)},
   out |-> IF Len(errors) > 0
           THEN Append(st.out, errorRecord(arrange(sanitizedRecord, ty),
                                           join(errors, " &\n")))
           ELSE st.out]

consistencyStep(st, sanitizedRecord, ty) ==
  consistencyPush(st, sanitizedRecord, ty,
                  consistencyErrors(sanitizedRecord, st.refs))

RECURSIVE consistencyLoop(_, _, _, _)
consistencyLoop(recs, ty, i, st) ==
  IF i > Len(recs) THEN st
  ELSE consistencyLoop(recs, ty, i + 1,
         consistencyStep(st, sanitizeKeys(recs[i]), ty))

-----------------------------------------------------------------------------
(***************************************************************************)
(* State.                                                                  *)
(***************************************************************************)
VARIABLES
  op,                \* the pipeline entry point called
  pc,                \* "ready": called with its arguments; "returned"
  records,           \* its records argument (for parseXml: after || [])
  type,              \* its format discriminator
  report,            \* the errorRecord[] it returned
  uniqueReferences,  \* the Set allocated by the last call, as it left it
  lastRun,           \* the call before the last: [records, type, report]
  balRecord,         \* validateEndBalance: the argument of the last call
  balResult,         \*   and what it returned
  rawRecord,         \* sanitizeKeys: the argument of the last call
  sanitized,         \*   and what it returned
  errorRecords,      \* FileUploader: useState<errorRecord[] | null>
  uploadStatus,      \*   useState<string>
  errorMessage,      \*   useState<string>
  isProcessing,      \*   useState<boolean>
  uploadedFileName,  \*   useState<string | null>
  readers,           \*   the FileReaders created so far, in order of creation
  drops,             \*   the number of drop events handled
  event              \*   the handler that ran last, and the file it ran for

pipelineVars == <<op, pc, records, type, report, uniqueReferences, lastRun>>
balanceVars == <<balRecord, balResult>>
keyVars == <<rawRecord, sanitized>>
uploaderVars == <<errorRecords, uploadStatus, errorMessage, isProcessing,
                  uploadedFileName, readers, drops, event>>
vars == <<pipelineVars, balanceVars, keyVars, uploaderVars>>

\* a nullable piece of React state: null, or a value
NullState == [null |-> TRUE, value |-> <<>>]
State(v) == [null |-> FALSE, value |-> v]

NoFile == [name |-> <<>>, type |-> "", content |-> [malformed |-> FALSE, data |-> <<>>]]
NoEvent == [handler |-> "", file |-> NoFile, reader |-> 0]

\* the five useState initial values; no reader yet
IdleUploader ==
  /\ errorRecords = NullState
  /\ uploadStatus = ""
  /\ errorMessage = <<>>
  /\ isProcessing = FALSE
  /\ uploadedFileName = NullState
  /\ readers = <<>>
  /\ drops = 0
  /\ event = NoEvent

\* C8, mutant: the Set outlives the call, the next call starts from it
sharedReferenceSet == uniqueReferences

\* const uniqueReferences = new Set<number>()
newReferenceSet == {}

\* C1, mutant: the consistency checks run whatever validation found
decideUngated(validationErrorRecords, recs, ty, refs0) ==
  [refs |-> refs0,
   out |-> validationErrorRecords
           \o consistencyLoop(recs, ty, 1, [refs |-> refs0, out |-> <<>>]).out]

\* if (validationErrorRecords.length === 0) { ...; return errorRecords }
\* return validationErrorRecords
decide(validationErrorRecords, recs, ty, refs0) ==
  IF Len(validationErrorRecords) = 0
  THEN consistencyLoop(recs, ty, 1, [refs |-> refs0, out |-> <<>>])
  ELSE [refs |-> refs0, out |-> validationErrorRecords]

\* processFile: [out, refs], the report and the Set as the call leaves it
processFileRun(recs, ty) ==
  decide(validationLoop(recs, ty, 1, <<>>), recs, ty, newReferenceSet)

processFile(recs, ty) == processFileRun(recs, ty).out

-----------------------------------------------------------------------------
(***************************************************************************)
(* Inputs.  A raw field map is built from six values under the keys of a   *)
(* header; an Undefined value means the property is absent (a short CSV    *)
(* row, a missing XML attribute).                                          *)
(***************************************************************************)
\* " Reference ",AccountNumber,... : the keys of utility.test.ts's raw records
CsvKeys == << <<" ", "R", "e", "f", "e", "r", "e", "n", "c", "e", " ">>,
             <<"A", "c", "c", "o", "u", "n", "t", "N", "u", "m", "b", "e", "r">>,
             <<"S", "t", "a", "r", "t", "B", "a", "l", "a", "n", "c", "e">>,
             <<"M", "u", "t", "a", "t", "i", "o", "n">>,
             <<"E", "n", "d", "B", "a", "l", "a", "n", "c", "e">>,
             <<"D", "e", "s", "c", "r", "i", "p", "t", "i", "o", "n">> >>

\* attributes in document order, reference last as in mockParsedXmlRecord
XmlKeys == << kAccountNumber, kStartBalance, kMutation, kEndBalance,
             kDescription, kReference >>

RECURSIVE rawRecordFrom(_, _, _)
rawRecordFrom(keys, values, i) ==
  IF i > Len(keys) THEN <<>>
  ELSE (IF values[i] = Undefined THEN <<>> ELSE <<Prop(keys[i], values[i])>>)
       \o rawRecordFrom(keys, values, i + 1)

csvRow(v) == rawRecordFrom(CsvKeys, v, 1)
xmlElement(v) ==
  rawRecordFrom(XmlKeys, <<v[2], v[3], v[4], v[5], v[6], v[1]>>, 1)

S1 == Str(<<"1">>)
S01 == Str(<<"0", "1">>)
S2 == Str(<<"2">>)
N1 == Num(Fin(100))
S10 == Str(<<"1", "0">>)
S20 == Str(<<"2", "0">>)
S100 == Str(<<"1", "0", "0">>)
S120 == Str(<<"1", "2", "0">>)
SAcc == Str(<<"1", "0", "0", "1">>)
SDesc == Str(<<"o", "k">>)
SEmpty == Str(<<>>)
S33e == Str(<<"3", "3", "e">>)
SNeg == Str(<<"-", "1">>)
SFrac == Str(<<"-", "1", ".", "5">>)
SInf == Str(InfinityChars)

\* <<reference, accountNumber, startBalance, mutation, endBalance, description>>
\* Structurally valid for the schema, reference 1 or 2 in several raw forms,
\* balance right (mutation 20) or wrong (mutation 10).
ValidTextValues ==
  { <<r, SAcc, S100, m, S120, SDesc>> : r \in {S1, S01, S2}, m \in {S20, S10} }

OtherTextValues ==
  { <<S1, SAcc, S100, S33e, S120, SDesc>>,         \* mutation "33e"
    <<SFrac, SAcc, S100, S10, S120, SDesc>>,       \* reference "-1.5"
    <<SNeg, SAcc, S100, S33e, S120, Undefined>>,   \* three fields fail
    <<S2, SAcc, S100, SEmpty, S100, SDesc>>,       \* an empty mutation cell
    <<S1, SAcc, S100, S20, SInf, SDesc>> }         \* endBalance "Infinity"

\* What a CSV or XML file can hold: strings only.
TextValues == ValidTextValues \cup OtherTextValues

\* What a direct caller of processFile can pass as well: numbers.
NumberValues ==
  { <<N1, SAcc, Num(Fin(10000)), Num(Fin(m)), Num(Fin(12000)), SDesc>> :
      m \in {2000, 1000} }
  \cup { <<N1, Num(Fin(100100)), S100, S20, S120, SDesc>> }

\* numbers next to the same values as text, valid and invalid
AnyValues ==
  NumberValues
  \cup { <<S1, SAcc, S100, S20, S120, SDesc>>,
         <<S1, SAcc, S100, S33e, S120, SDesc>> }

RECURSIVE SeqsUpTo(_, _)
SeqsUpTo(S, n) ==
  IF n = 0 THEN {<<>>}
  ELSE LET shorter == SeqsUpTo(S, n - 1)
       IN shorter \cup {Append(s, x) : s \in {q \in shorter : Len(q) = n - 1}, x \in S}

CsvInputs == SeqsUpTo({csvRow(v) : v \in TextValues}, MaxRecords)
XmlInputs == SeqsUpTo({xmlElement(v) : v \in TextValues}, MaxRecords)
DirectInputs == SeqsUpTo({csvRow(v) : v \in AnyValues}, MaxRecords)

NoRun == [records |-> <<>>, type |-> "", report |-> <<>>, ran |-> FALSE]

-----------------------------------------------------------------------------
(***************************************************************************)
(* The pipeline: its three exported entry points.  processFile is          *)
(* synchronous: a call is one step, from "ready" (the arguments are        *)
(* there) to "returned".                                                   *)
(***************************************************************************)
IdleBalance ==
  /\ balRecord = <<>>
  /\ balResult = Null

IdleKeys ==
  /\ rawRecord = <<>>
  /\ sanitized = <<>>

IdlePipeline ==
  /\ op = "none"
  /\ pc = "idle"
  /\ records = <<>>
  /\ type = ""
  /\ report = <<>>
  /\ uniqueReferences = {}
  /\ lastRun = NoRun

Init ==
  /\ pc = "ready"
  /\ \/ op = "processFile" /\ records \in DirectInputs /\ type \in {"csv", "xml"}
     \/ op = "parseCsv" /\ records \in CsvInputs /\ type = "csv"
     \/ op = "parseXml" /\ records \in XmlInputs /\ type = "xml"
  /\ report = <<>>
  /\ uniqueReferences = {}
  /\ lastRun = NoRun
  /\ IdleBalance
  /\ IdleKeys
  /\ IdleUploader

returns(run) ==
  /\ report' = run.out
  /\ uniqueReferences' = run.refs

return ==
  /\ pc = "ready"
  /\ pc' = "returned"
  /\ returns(processFileRun(records, type))
  /\ UNCHANGED <<op, records, type, lastRun, balanceVars, keyVars,
                 uploaderVars>>

\* processFile(records, type), called as the tests call it
ProcessFile == op = "processFile" /\ return

\* parseCsv(csvString): records is what Papa.parse hands to complete
ParseCsv == op = "parseCsv" /\ return

\* parseXml(xmlString): records is result?.records?.record || [], which is
\* [] as well when the document has no records/record path
ParseXml == op = "parseXml" /\ return

Next == ProcessFile \/ ParseCsv \/ ParseXml

Spec == Init /\ [][Next]_vars
-----------------------------------------------------------------------------
(***************************************************************************)
(* Successive calls of the pipeline through parseCsv (the same file       *)
(* uploaded twice, two files that share references).  processFile is       *)
(* synchronous, so calls follow one another and never overlap; lastRun     *)
(* remembers the call before.                                              *)
(***************************************************************************)
RunValues ==
  { <<S1, SAcc, S100, S20, S120, SDesc>>,
    <<S1, SAcc, S100, S10, S120, SDesc>>,
    <<S2, SAcc, S100, S20, S120, SDesc>> }

RunInputs == SeqsUpTo({csvRow(v) : v \in RunValues}, MaxRunRecords)

InitRuns == IdlePipeline /\ IdleBalance /\ IdleKeys /\ IdleUploader

Run ==
  \E results \in RunInputs :
    /\ op' = "parseCsv"
    /\ pc' = "returned"
    /\ records' = results
    /\ type' = "csv"
    /\ returns(processFileRun(results, "csv"))
    /\ lastRun' = IF pc = "returned"
                  THEN [records |-> records, type |-> type,
                        report |-> report, ran |-> TRUE]
                  ELSE NoRun
    /\ UNCHANGED <<balanceVars, keyVars, uploaderVars>>

SpecRuns == InitRuns /\ [][Run]_vars

-----------------------------------------------------------------------------
(***************************************************************************)
(* validateEndBalance on its own.  The record holds the three balance      *)
(* fields; a field is a number (finite in steps of a cent, NaN, an         *)
(* infinity), a string to coerce, or absent.                               *)
(***************************************************************************)
BalanceCents == {u * c : u \in {1, 55}, c \in (0 - MaxCents)..MaxCents}

BalanceValues ==
  {Num(Fin(c)) : c \in BalanceCents}
  \cup {Num(NaN), Num(PosInf), Num(NegInf)}
  \cup {Str(<<"1", ".", "1">>), Str(<<"x">>), Str(InfinityChars), Undefined}

balanceRecord(sb, mu, eb) ==
  rawRecordFrom(<<kStartBalance, kMutation, kEndBalance>>, <<sb, mu, eb>>, 1)

InitBalance ==
  /\ op = "validateEndBalance"
  /\ pc = "ready"
  /\ \E sb \in BalanceValues, mu \in BalanceValues, eb \in BalanceValues :
       balRecord = balanceRecord(sb, mu, eb)
  /\ balResult = Null
  /\ records = <<>> /\ type = "" /\ report = <<>>
  /\ uniqueReferences = {} /\ lastRun = NoRun
  /\ IdleKeys
  /\ IdleUploader

ValidateEndBalance ==
  /\ op = "validateEndBalance"
  /\ pc = "ready"
  /\ pc' = "returned"
  /\ balResult' = validateEndBalance(balRecord)
  /\ UNCHANGED <<op, records, type, report, uniqueReferences, lastRun,
                 balRecord, keyVars, uploaderVars>>

SpecBalance == InitBalance /\ [][ValidateEndBalance]_vars

-----------------------------------------------------------------------------
(***************************************************************************)
(* sanitizeKeys on its own.  A raw field map has up to MaxKeys distinct    *)
(* keys out of KeyPool, which holds keys that differ only by white space   *)
(* or by the case of their first character.                                *)
(***************************************************************************)
KeyPool ==
  { <<" ", "R", "e", "f", "e", "r", "e", "n", "c", "e", " ">>,
    <<"R", "e", "f", "e", "r", "e", "n", "c", "e">>,
    <<"r", "e", "f", "e", "r", "e", "n", "c", "e">>,
    <<"R", "E", "F">>,
    <<"A", "c", "c", "o", "u", "n", "t", "N", "u", "m", "b", "e", "r">>,
    <<"a", "c", "c", "o", "u", "n", "t", " ", "N", "u", "m", "b", "e", "r">>,
    <<" ">>, <<"\t", "A">>, <<"a">> }

KeyValues == {Num(Fin(100)), Str(<<"x">>)}

distinctKeys(obj) ==
  \A i, j \in 1..Len(obj) : obj[i].key = obj[j].key => i = j

RawMaps ==
  { m \in SeqsUpTo({Prop(k, v) : k \in KeyPool, v \in KeyValues}, MaxKeys) :
      distinctKeys(m) }

InitKeys ==
  /\ op = "sanitizeKeys"
  /\ pc = "ready"
  /\ rawRecord \in RawMaps
  /\ sanitized = <<>>
  /\ records = <<>> /\ type = "" /\ report = <<>>
  /\ uniqueReferences = {} /\ lastRun = NoRun
  /\ IdleBalance
  /\ IdleUploader

SanitizeKeys ==
  /\ op = "sanitizeKeys"
  /\ pc = "ready"
  /\ pc' = "returned"
  /\ sanitized' = sanitizeKeys(rawRecord)
  /\ UNCHANGED <<op, records, type, report, uniqueReferences, lastRun,
                 rawRecord, balanceVars, uploaderVars>>

SpecKeys == InitKeys /\ [][SanitizeKeys]_vars

-----------------------------------------------------------------------------
(***************************************************************************)
(* FileUploader.  A drop event carries one file, which the dropzone        *)
(* either accepts (onDrop gets it) or rejects (onDrop gets no file, then   *)
(* onDropRejected gets the rejection).  A handler runs to completion, so   *)
(* each is one step; React applies its setState calls together, the last   *)
(* call for a piece of state winning.  readAsText completes later, through *)
(* onload or onerror, and the readers of several drops complete in any     *)
(* order.                                                                  *)
(***************************************************************************)
File(name, ty, content) == [name |-> name, type |-> ty, content |-> content]

\* What reading a file yields: the rows Papa.parse finds in it, the
\* elements at records/record the XMLParser finds in it ([] without such a
\* path), or text on which the XMLParser throws.
Data(rows) == [malformed |-> FALSE, data |-> rows]
Malformed == [malformed |-> TRUE, data |-> <<>>]

FileValues == <<S1, SAcc, S100, S20, S120, SDesc>>
WrongBalanceValues == <<S1, SAcc, S100, S10, S120, SDesc>>

FilePool ==
  { File(<<"a", ".", "c", "s", "v">>, "text/csv", Data(<<csvRow(FileValues)>>)),
    File(<<"c", ".", "x", "m", "l">>, "application/xml",
         Data(<<xmlElement(WrongBalanceValues)>>)),
    File(<<"m", ".", "x", "m", "l">>, "application/xml", Malformed),
    File(<<"n", ".", "x", "m", "l">>, "text/plain", Data(<<>>)),
    File(<<"d", ".", "t", "x", "t">>, "text/plain", Data(<<>>)),
    File(<<"e", ".", "t", "x", "t">>, "text/csv", Data(<<csvRow(FileValues)>>)),
    File(<<"F", ".", "C", "S", "V">>, "text/csv", Data(<<csvRow(WrongBalanceValues)>>)),
    File(<<"c", "s", "v">>, "text/csv", Data(<<csvRow(WrongBalanceValues)>>)) }

endsWith(s, searchString) ==
  /\ Len(s) >= Len(searchString)
  /\ SubSeq(s, Len(s) - Len(searchString) + 1, Len(s)) = searchString

dotCsv == <<".", "c", "s", "v">>
dotXml == <<".", "x", "m", "l">>

\* accept: { "text/csv": [".csv"], "application/xml": [".xml"] }
acceptTypes == {"text/csv", "application/xml"}
acceptExtensions == {dotCsv, dotXml}

\* the dropzone accepts a file whose MIME type is listed, or whose name ends
\* with a listed extension whatever its case
accepted(file) ==
  \/ file.type \in acceptTypes
  \/ \E e \in acceptExtensions : endsWith(toLowerCaseAll(file.name), e)

\* name.split(".").pop()
RECURSIVE lastSegment(_)
lastSegment(name) ==
  IF \E i \in 1..Len(name) : name[i] = "."
  THEN lastSegment(SubSeq(name,
                          1 + (CHOOSE i \in 1..Len(name) : name[i] = "."),
                          Len(name)))
  ELSE name

validExtensions == {<<"c", "s", "v">>, <<"x", "m", "l">>}

\* C10, mutant: no extension gate in onDrop
anyOriginalname(name) == name # <<>>

\* the refinement of fileSchema.originalname
validOriginalname(name) ==
  LET ext == toLowerCaseAll(lastSegment(name))
  IN ext # <<>> /\ ext \in validExtensions

\* error.issues.map((issue) => issue.message).join(", ")
fileSchemaMessage ==
  <<"Unsupported file type. Only CSV and XML files are accepted">>

Reader(file) == [file |-> file, state |-> "pending", parser |-> ""]

Event(handler, file, reader) ==
  [handler |-> handler, file |-> file, reader |-> reader]

\* onDrop with acceptedFiles = [file]
OnDrop ==
  \E file \in FilePool :
    /\ drops < MaxDrops
    /\ accepted(file)
    /\ drops' = drops + 1
    /\ uploadStatus' = ""
    /\ uploadedFileName' = State(file.name)
    /\ errorRecords' = NullState
    /\ IF validOriginalname(file.name)
       THEN /\ readers' = Append(readers, Reader(file))
            /\ isProcessing' = TRUE
            /\ errorMessage' = <<>>
            /\ event' = Event("onDrop", file, Len(readers) + 1)
       ELSE /\ readers' = readers
            /\ isProcessing' = FALSE
            /\ errorMessage' = fileSchemaMessage
            /\ event' = Event("onDrop", file, 0)
    /\ UNCHANGED <<pipelineVars, balanceVars, keyVars>>

\* onDrop with acceptedFiles = [], then onDropRejected with the rejection
OnDropRejected ==
  \E rejectedFile \in FilePool :
    /\ drops < MaxDrops
    /\ ~accepted(rejectedFile)
    /\ drops' = drops + 1
    /\ errorRecords' = NullState
    /\ uploadStatus' = ""
    /\ errorMessage' = <<"Unsupported file type: ", rejectedFile.name>>
    /\ isProcessing' = FALSE
    /\ uploadedFileName' = NullState
    /\ event' = Event("onDropRejected", rejectedFile, 0)
    /\ UNCHANGED <<readers, pipelineVars, balanceVars, keyVars>>

\* the parser reader.onload picks by file.name.endsWith
parserOf(name) ==
  IF endsWith(name, dotCsv) THEN "parseCsv"
  ELSE IF endsWith(name, dotXml) THEN "parseXml"
  ELSE "none"

formatOf(parser) == IF parser = "parseCsv" THEN "csv" ELSE "xml"

called(i, parser) ==
  /\ readers' = [readers EXCEPT ![i].state = "loaded", ![i].parser = parser]
  /\ event' = Event("onload", readers[i].file, i)

remember ==
  lastRun' = IF pc = "returned"
             THEN [records |-> records, type |-> type,
                   report |-> report, ran |-> TRUE]
             ELSE NoRun

\* setErrorRecords(errors); setIsProcessing(false); setErrorMessage("")
shows(errors) ==
  /\ errorRecords' = State(errors)
  /\ isProcessing' = FALSE
  /\ errorMessage' = <<>>

\* reader.onload, the parser returns
Parsed(i, content, parser) ==
  /\ parser # "none"
  /\ ~content.malformed \/ parser = "parseCsv"
  /\ op' = parser
  /\ pc' = "returned"
  /\ records' = content.data
  /\ type' = formatOf(parser)
  /\ returns(processFileRun(content.data, formatOf(parser)))
  /\ remember
  /\ shows(report')
  /\ called(i, parser)

\* reader.onload, parseXml throws on the text: the catch branch
ParseError(i, content, parser) ==
  /\ parser = "parseXml"
  /\ content.malformed
  /\ op' = parser
  /\ pc' = "threw"
  /\ records' = <<>>
  /\ type' = ""
  /\ returns([out |-> <<>>, refs |-> {}])
  /\ remember
  /\ errorMessage' = <<"An error occurred during file parsing: ", "Error">>
  /\ errorRecords' = NullState
  /\ isProcessing' = FALSE
  /\ called(i, parser)

\* reader.onload, neither endsWith holds: errors stays []
NotParsed(i, parser) ==
  /\ parser = "none"
  /\ shows(<<>>)
  /\ called(i, parser)
  /\ UNCHANGED pipelineVars

ReaderOnload ==
  \E i \in 1..Len(readers) :
    /\ readers[i].state = "pending"
    /\ \/ Parsed(i, readers[i].file.content, parserOf(readers[i].file.name))
       \/ ParseError(i, readers[i].file.content, parserOf(readers[i].file.name))
       \/ NotParsed(i, parserOf(readers[i].file.name))
    /\ UNCHANGED <<uploadStatus, uploadedFileName, drops, balanceVars, keyVars>>

ReaderOnerror ==
  \E i \in 1..Len(readers) :
    /\ readers[i].state = "pending"
    /\ readers' = [readers EXCEPT ![i].state = "failed"]
    /\ errorMessage' = <<"Failed to read file.">>
    /\ isProcessing' = FALSE
    /\ event' = Event("onerror", readers[i].file, i)
    /\ UNCHANGED <<errorRecords, uploadStatus, uploadedFileName, drops,
                   pipelineVars, balanceVars, keyVars>>

InitUploader == IdlePipeline /\ IdleBalance /\ IdleKeys /\ IdleUploader

NextUploader == OnDrop \/ OnDropRejected \/ ReaderOnload \/ ReaderOnerror

SpecUploader == InitUploader /\ [][NextUploader]_vars

-----------------------------------------------------------------------------
(***************************************************************************)
(* Reading a report.                                                       *)
(***************************************************************************)
errorsOf(entry) == get(entry, kErrors).text

hasFragment(text, f) == \E i \in 1..Len(text) : text[i] = f

IsDuplicateFlagged(entry) == hasFragment(errorsOf(entry), "Duplicate record")

IsBalanceFlagged(entry) ==
  \/ hasFragment(errorsOf(entry), "Mismatching end balance: Expected: ")
  \/ hasFragment(errorsOf(entry), InvalidNumberFormat[1])

\* 'Field - <path> Error - <message>' segments joined by ' | '
IsStructuralText(text) ==
  /\ Len(text) % 5 = 4
  /\ \A i \in 1..Len(text) :
       /\ i % 5 = 1 => text[i] = "Field - "
       /\ i % 5 = 3 => text[i] = " Error - "
       /\ i % 5 = 0 => text[i] = " | "
       /\ i % 5 = 2 => \E j \in 1..Len(accountRecordSchema) :
                         text[i] = accountRecordSchema[j].name

\* The paths a structural text lists, in order.
pathsOf(text) ==
  [k \in 1..((Len(text) + 1) \div 5) |-> text[5 * (k - 1) + 2]]

\* The entry holds the six fields of the raw record, under the canonical keys.
sameFields(entry, raw) ==
  \A j \in 1..Len(accountRecordSchema) :
    get(entry, accountRecordSchema[j].key)
      = get(sanitizeKeys(raw), accountRecordSchema[j].key)

StructurallyValid(raw) == safeParse(sanitizeKeys(raw)).success

\* The validated identifier of a structurally valid record.
identifierOf(raw) == Number(get(sanitizeKeys(raw), kReference))

\* startBalance + mutation = endBalance, on the validated numbers
Balanced(raw) ==
  LET r == sanitizeKeys(raw)
  IN Add(Number(get(r, kStartBalance)), Number(get(r, kMutation)))
       = Number(get(r, kEndBalance))

indicesOf(recs) == [i \in 1..Len(recs) |-> i]

InvalidIndices ==
  SelectSeq(indicesOf(records), LAMBDA i : ~StructurallyValid(records[i]))

AllValid == InvalidIndices = <<>>

\* An earlier record holds the same validated identifier.
RepeatsEarlier(i) ==
  \E j \in 1..(i - 1) : identifierOf(records[j]) = identifierOf(records[i])

RepeatIndices == SelectSeq(indicesOf(records), LAMBDA i : RepeatsEarlier(i))

-----------------------------------------------------------------------------
(***************************************************************************)
(* C1.  Two-phase gating: when at least one record of the input fails      *)
(* structural validation, the report is exactly the structurally invalid   *)
(* records, in order, each with a structural error text only; no entry     *)
(* carries 'Duplicate record' or a balance message, whatever the other     *)
(* records are.                                                            *)
(***************************************************************************)
C1_TwoPhaseGating ==
  (pc = "returned" /\ ~AllValid) =>
    /\ Len(report) = Len(InvalidIndices)
    /\ \A k \in 1..Len(report) :
         /\ k <= Len(InvalidIndices)
         /\ sameFields(report[k], records[InvalidIndices[k]])
         /\ IsStructuralText(errorsOf(report[k]))
         /\ ~IsDuplicateFlagged(report[k])
         /\ ~IsBalanceFlagged(report[k])

\* One invalid record among two valid ones that repeat a reference and
\* miss their balance: only the invalid one is reported.
C1_Witness ==
  /\ pc = "returned"
  /\ Len(records) = 3
  /\ Len(InvalidIndices) = 1
  /\ Len(report) = 1
  /\ \E i, j \in 1..3 :
       /\ i < j
       /\ StructurallyValid(records[i]) /\ StructurallyValid(records[j])
       /\ identifierOf(records[i]) = identifierOf(records[j])
       /\ ~Balanced(records[j])

(***************************************************************************)
(* C2.  Duplicate detection: when every record is structurally valid, the  *)
(* records flagged 'Duplicate record' are exactly those whose validated    *)
(* integer reference is already held by an earlier record of the input,    *)
(* whatever raw form ("1", "01", 1) each one had; a first occurrence is    *)
(* never flagged.                                                          *)
(***************************************************************************)
C2_DuplicateByIdentifier ==
  (pc = "returned" /\ AllValid) =>
    LET flagged == SelectSeq(report, IsDuplicateFlagged)
    IN /\ Len(flagged) = Len(RepeatIndices)
       /\ \A k \in 1..Len(flagged) :
            k <= Len(RepeatIndices)
              => sameFields(flagged[k], records[RepeatIndices[k]])

(***************************************************************************)
(* C7.  Shape of the report: it is empty if and only if every record is    *)
(* structurally valid, no reference repeats and every balance is           *)
(* consistent (an input of zero records included).                         *)
(***************************************************************************)
C7_EmptyReportIffClean ==
  pc = "returned" =>
    (report = <<>>
       <=> /\ AllValid
           /\ RepeatIndices = <<>>
           /\ \A i \in 1..Len(records) : Balanced(records[i]))

(***************************************************************************)
(* C6.  Structural validation: a record is reported as structurally        *)
(* invalid if and only if some field fails, where reference must coerce    *)
(* to an integer >= 0, the three balances must each be coercible to a      *)
(* number, a string that does not denote a number fails, accountNumber     *)
(* and description must be strings and an absent field fails; the error    *)
(* text lists every failing field as 'Field - <path> Error - <message>'    *)
(* segments joined by ' | '.                                               *)
(***************************************************************************)
\* The value denotes a number: a finite number, or a string that holds a
\* numeric literal (the empty string and white space hold none).
DenotesNumber(v) ==
  \/ v.t = "number" /\ isFinite(v.n)
  \/ v.t = "string" /\ trim(v.s) # <<>> /\ isFinite(StringToNumber(v.s))

FieldFails(f, v) ==
  IF f.type = "string" THEN v.t # "string"
  ELSE IF f.type = "number" THEN ~DenotesNumber(v)
  ELSE \/ ~DenotesNumber(v)
       \/ Number(v).cents % 100 # 0
       \/ Number(v).cents < 0

FailingFields(raw) ==
  { accountRecordSchema[j].name : j \in
      { j \in 1..Len(accountRecordSchema) :
          FieldFails(accountRecordSchema[j],
                     get(sanitizeKeys(raw), accountRecordSchema[j].key)) } }

ClaimedInvalidIndices ==
  SelectSeq(indicesOf(records), LAMBDA i : FailingFields(records[i]) # {})

C6_StructuralValidation ==
  pc = "returned" =>
    IF ClaimedInvalidIndices = <<>>
    THEN \A k \in 1..Len(report) : ~IsStructuralText(errorsOf(report[k]))
    ELSE /\ Len(report) = Len(ClaimedInvalidIndices)
         /\ \A k \in 1..Len(report) :
              k <= Len(ClaimedInvalidIndices) =>
                /\ sameFields(report[k], records[ClaimedInvalidIndices[k]])
                /\ IsStructuralText(errorsOf(report[k]))
                /\ {pathsOf(errorsOf(report[k]))[n] :
                      n \in 1..Len(pathsOf(errorsOf(report[k])))}
                     = FailingFields(records[ClaimedInvalidIndices[k]])

-----------------------------------------------------------------------------
(***************************************************************************)
(* C8.  The duplicate-reference set is scoped to one invocation: the       *)
(* report of a call is a function of its own input only.  Running the      *)
(* pipeline again on the same input returns the same report, and a record  *)
(* is flagged 'Duplicate record' only when an earlier record of the same   *)
(* input holds its reference, never because of a reference seen in the     *)
(* call before.                                                            *)
(***************************************************************************)
rawReference(raw) == get(sanitizeKeys(raw), kReference)

C8_InvocationScoped ==
  pc = "returned" =>
    /\ (lastRun.ran /\ lastRun.records = records /\ lastRun.type = type)
         => report = lastRun.report
    /\ \A k \in 1..Len(report) :
         IsDuplicateFlagged(report[k]) =>
           \E i \in 1..Len(records), j \in 1..Len(records) :
             /\ j < i
             /\ sameFields(report[k], records[i])
             /\ rawReference(records[j]) = rawReference(records[i])

\* The same one-record file twice in a row: nothing is flagged the second
\* time, although the call before saw its reference.
C8_Witness ==
  /\ pc = "returned"
  /\ lastRun.ran
  /\ lastRun.records = records
  /\ Len(records) = 1
  /\ rawReference(records[1]) \in uniqueReferences
  /\ report = <<>>

-----------------------------------------------------------------------------
(***************************************************************************)
(* C3.  validateEndBalance on numbers with at most two decimals: no error  *)
(* exactly when startBalance + mutation equals endBalance to the cent;     *)
(* otherwise 'Mismatching end balance: Expected: <sum>, Received:          *)
(* <endBalance>' with the computed sum, printed unrounded, and the         *)
(* received value.                                                         *)
(***************************************************************************)
IsTwoDecimalNumber(v) == v.t = "number" /\ isFinite(v.n)

balStart == get(balRecord, kStartBalance)
balMutation == get(balRecord, kMutation)
balEnd == get(balRecord, kEndBalance)

BalanceCalled == op = "validateEndBalance" /\ pc = "returned"

C3_BalanceTwoDecimals ==
  (/\ BalanceCalled
   /\ IsTwoDecimalNumber(balStart)
   /\ IsTwoDecimalNumber(balMutation)
   /\ IsTwoDecimalNumber(balEnd)) =>
    LET sum == balStart.n.cents + balMutation.n.cents
    IN IF sum = balEnd.n.cents
       THEN balResult = Null
       ELSE balResult =
              Message(<< "Mismatching end balance: Expected: ",
                         numberToString(Fin(sum)), ", Received: ",
                         numberToString(balEnd.n) >>)

\* 0.55 + 0.55 against 1.1 passes; 0.55 + 0.55 against 0.55 reports 1.1
C3_Witness ==
  /\ BalanceCalled
  /\ balStart = Num(Fin(55)) /\ balMutation = Num(Fin(55))
  /\ balEnd = Num(Fin(55))
  /\ balResult = Message(<< "Mismatching end balance: Expected: ", "1.1",
                            ", Received: ", "0.55" >>)

(***************************************************************************)
(* C4.  validateEndBalance, when one of the three values is not a finite   *)
(* number (NaN, +Infinity, -Infinity, or a value that coerces to one):     *)
(* the result is the distinct error 'Invalid number format for balance or  *)
(* mutation', never a mismatch message and never 'no error'.               *)
(***************************************************************************)
C4_NonFiniteIsInvalidFormat ==
  (/\ BalanceCalled
   /\ \/ ~isFinite(Number(balStart))
      \/ ~isFinite(Number(balMutation))
      \/ ~isFinite(Number(balEnd))) =>
    balResult = Message(InvalidNumberFormat)

-----------------------------------------------------------------------------
(***************************************************************************)
(* C9.  sanitizeKeys key transformation: the output keys are the input     *)
(* keys with every white-space character removed and only the first        *)
(* remaining character lower-cased (' Reference ' -> 'reference',          *)
(* 'AccountNumber' -> 'accountNumber'), and sanitizing an already          *)
(* sanitized map returns an equal map.                                     *)
(***************************************************************************)
RECURSIVE withoutWhiteSpace(_)
withoutWhiteSpace(k) ==
  IF k = <<>> THEN <<>>
  ELSE IF Head(k) \in {" ", "\t", "\n", "\r"} THEN withoutWhiteSpace(Tail(k))
  ELSE <<Head(k)>> \o withoutWhiteSpace(Tail(k))

Normalized(k) ==
  LET w == withoutWhiteSpace(k)
  IN [i \in 1..Len(w) |-> IF i = 1 THEN toLowerCase(w[1]) ELSE w[i]]

KeysCalled == op = "sanitizeKeys" /\ pc = "returned"

keySet(obj) == {obj[i].key : i \in 1..Len(obj)}

C9_KeyNormalization ==
  KeysCalled =>
    /\ keySet(sanitized) = {Normalized(k) : k \in keySet(rawRecord)}
    /\ hasKey(rawRecord, CsvKeys[1]) => hasKey(sanitized, kReference)
    /\ hasKey(rawRecord, CsvKeys[2]) => hasKey(sanitized, kAccountNumber)
    /\ sanitizeKeys(sanitized) = sanitized

C9_Witness ==
  /\ KeysCalled
  /\ keysOf(rawRecord) = <<CsvKeys[1], CsvKeys[2]>>
  /\ keysOf(sanitized) = <<kReference, kAccountNumber>>

(***************************************************************************)
(* C5.  sanitizeKeys does not drop or rename values: the output has as     *)
(* many entries as the input and every input value is found under the      *)
(* normalized form of its own key, also when two raw keys differ only by   *)
(* white space or by the case of their first character.                    *)
(***************************************************************************)
C5_NoValueDropped ==
  KeysCalled =>
    /\ Len(sanitized) = Len(rawRecord)
    /\ \A j \in 1..Len(rawRecord) :
         get(sanitized, Normalized(rawRecord[j].key)) = rawRecord[j].value

-----------------------------------------------------------------------------
(***************************************************************************)
(* C10.  Upload gating in FileUploader: for every dropped file, parseCsv   *)
(* or parseXml is invoked only if the file name has the extension .csv or  *)
(* .xml; a file with any other extension never reaches the pipeline (no    *)
(* reader is created for it) and its drop results in a user-facing error   *)
(* message, with no error records and no success message shown.            *)
(***************************************************************************)
\* The extension of a name: what follows its last dot, if it has a dot.
dotPositions(name) == {i \in 1..Len(name) : name[i] = "."}

HasExtension(name) == dotPositions(name) # {}

ExtensionOf(name) ==
  LET last == CHOOSE i \in dotPositions(name) :
                \A j \in dotPositions(name) : j <= i
  IN toLowerCaseAll(SubSeq(name, last + 1, Len(name)))

UploadExtensions == {<<"c", "s", "v">>, <<"x", "m", "l">>}

HasUploadExtension(name) ==
  HasExtension(name) /\ ExtensionOf(name) \in UploadExtensions

HasOtherExtension(name) ==
  HasExtension(name) /\ ExtensionOf(name) \notin UploadExtensions

\* on screen: the table of error records, the success message
TableShown == ~errorRecords.null /\ Len(errorRecords.value) > 0
SuccessShown == ~errorRecords.null /\ Len(errorRecords.value) = 0

C10_UploadGating ==
  /\ \A i \in 1..Len(readers) :
       /\ readers[i].parser \in {"parseCsv", "parseXml"}
            => HasUploadExtension(readers[i].file.name)
       /\ ~HasOtherExtension(readers[i].file.name)
  /\ (event.handler = "onload" /\ pc \in {"returned", "threw"})
       => (op \in {"parseCsv", "parseXml"}
             => \E i \in 1..Len(readers) :
                  /\ readers[i].parser = op
                  /\ HasUploadExtension(readers[i].file.name))
  /\ (event.handler \in {"onDrop", "onDropRejected"}
        /\ HasOtherExtension(event.file.name))
       => /\ errorMessage # <<>>
          /\ ~TableShown
          /\ ~SuccessShown
          /\ ~isProcessing

\* a .csv file went through parseCsv, then e.txt, which the dropzone lets
\* through for its MIME type, is refused by onDrop
C10_Witness ==
  /\ \E i \in 1..Len(readers) : readers[i].parser = "parseCsv"
  /\ event.handler = "onDrop"
  /\ event.file.name = <<"e", ".", "t", "x", "t">>
  /\ errorMessage = fileSchemaMessage
  /\ errorRecords = NullState

-----------------------------------------------------------------------------
(***************************************************************************)
(* C11.  Field order of the error records of processFile, in both phases:  *)
(* with the discriminator 'xml', 'reference' is the first key of every     *)
(* ErrorRecord, whatever place it had in the source, and 'errors' the      *)
(* last; with 'csv' the keys keep the order of the source fields, followed *)
(* by 'errors'; the values of the record are not changed by the            *)
(* reordering.                                                             *)
(***************************************************************************)
\* the source fields under their normalized keys, in source order
SourceKeys(raw) == [j \in 1..Len(raw) |-> Normalized(raw[j].key)]

without(keys, k) == SelectSeq(keys, LAMBDA x : x # k)

ExpectedKeys(raw, ty) ==
  IF ty = "xml"
  THEN <<kReference>> \o without(SourceKeys(raw), kReference) \o <<kErrors>>
  ELSE SourceKeys(raw) \o <<kErrors>>

KeepsValues(entry, raw) ==
  \A j \in 1..Len(raw) : get(entry, Normalized(raw[j].key)) = raw[j].value

C11_FieldOrder ==
  pc = "returned" =>
    \A k \in 1..Len(report) :
      /\ Len(report[k]) >= 2
      /\ type = "xml" => report[k][1].key = kReference
      /\ report[k][Len(report[k])].key = kErrors
      /\ \E i \in 1..Len(records) :
           /\ keysOf(report[k]) = ExpectedKeys(records[i], type)
           /\ KeepsValues(report[k], records[i])

\* parseXml: a record whose reference attribute comes last is reported, in
\* phase 2, with reference first
C11_Witness ==
  /\ pc = "returned"
  /\ op = "parseXml"
  /\ Len(records) = 1
  /\ keysOf(records[1]) = XmlKeys
  /\ Len(report) = 1
  /\ IsBalanceFlagged(report[1])
  /\ keysOf(report[1]) = << kReference, kAccountNumber, kStartBalance,
                            kMutation, kEndBalance, kDescription, kErrors >>

-----------------------------------------------------------------------------
(***************************************************************************)
(* C12.  Combination of consistency errors in phase 2 of processFile: a    *)
(* record that both repeats a reference and has an inconsistent balance    *)
(* yields exactly one ErrorRecord whose errors text is 'Duplicate record', *)
(* then the delimiter ' &\n', then the balance message, in that order; a   *)
(* record failing only one of the two checks carries only that message,    *)
(* with no delimiter; a record failing none has no entry; a flagged        *)
(* duplicate neither adds its reference to the set again nor skips its     *)
(* balance check.                                                          *)
(***************************************************************************)
\* an earlier record holds the same reference value
RepeatsValue(i) ==
  \E j \in 1..(i - 1) : rawReference(records[j]) = rawReference(records[i])

BalanceMessageOf(raw) ==
  LET r == sanitizeKeys(raw)
  IN << "Mismatching end balance: Expected: ",
        numberToString(Add(Number(get(r, kStartBalance)),
                           Number(get(r, kMutation)))),
        ", Received: ",
        numberToString(Number(get(r, kEndBalance))) >>

ExpectedErrors(i) ==
  IF RepeatsValue(i) /\ ~Balanced(records[i])
  THEN <<"Duplicate record", " &\n">> \o BalanceMessageOf(records[i])
  ELSE IF RepeatsValue(i) THEN <<"Duplicate record">>
  ELSE IF ~Balanced(records[i]) THEN BalanceMessageOf(records[i])
  ELSE <<>>

FailingIndices ==
  SelectSeq(indicesOf(records), LAMBDA i : ExpectedErrors(i) # <<>>)

C12_CombinedErrors ==
  (pc = "returned" /\ AllValid) =>
    /\ Len(report) = Len(FailingIndices)
    /\ \A k \in 1..Len(report) :
         k <= Len(FailingIndices) =>
           /\ sameFields(report[k], records[FailingIndices[k]])
           /\ errorsOf(report[k]) = ExpectedErrors(FailingIndices[k])
    /\ uniqueReferences = {rawReference(records[i]) : i \in 1..Len(records)}

\* three records with the same reference: the second is balanced, the third
\* is not and carries both messages
C12_Witness ==
  /\ pc = "returned"
  /\ Len(records) = 3
  /\ Len(report) = 2
  /\ Cardinality(uniqueReferences) = 1
  /\ errorsOf(report[1]) = <<"Duplicate record">>
  /\ errorsOf(report[2]) =
       << "Duplicate record", " &\n", "Mismatching end balance: Expected: ",
          "110", ", Received: ", "120" >>

-----------------------------------------------------------------------------
(***************************************************************************)
(* C13.  FileUploader under interleaved uploads: when a second file is     *)
(* dropped while the FileReader of a first file is still pending, and the  *)
(* readers' onload / onerror callbacks fire in any order, the displayed    *)
(* result always belongs to the file whose name is displayed as the        *)
(* uploaded file, 'Processing...' stays shown until the reader of the most *)
(* recently dropped file has completed, and a late callback of an earlier  *)
(* file never overwrites the state of the later one.                       *)
(***************************************************************************)
CallbackRan == event.handler \in {"onload", "onerror"}

\* the last reader created is the reader of the file whose name is displayed
LatestIsDisplayed ==
  /\ Len(readers) > 0
  /\ uploadedFileName = State(readers[Len(readers)].file.name)

C13_ResultOfDisplayedFile ==
  /\ CallbackRan =>
       /\ uploadedFileName = State(event.file.name)
       /\ event.reader = Len(readers)
  /\ (LatestIsDisplayed /\ readers[Len(readers)].state = "pending")
       => isProcessing

-----------------------------------------------------------------------------
(***************************************************************************)
(* C14.  FileUploader: every file that passes the extension gate           *)
(* (fileSchema, which compares the extension whatever its case) and is     *)
(* read successfully is handed to exactly one of parseCsv and parseXml     *)
(* before a result is shown; the success message 'No error records         *)
(* found!' is displayed only after the pipeline has run on that file's     *)
(* content and returned an empty report.                                   *)
(***************************************************************************)
C14_ParsedBeforeShown ==
  /\ \A i \in 1..Len(readers) :
       readers[i].state = "loaded"
         => readers[i].parser \in {"parseCsv", "parseXml"}
  /\ (event.handler = "onload" /\ SuccessShown) =>
       /\ op \in {"parseCsv", "parseXml"}
       /\ pc = "returned"
       /\ records = event.file.content.data
       /\ report = <<>>

=============================================================================
